---- MODULE Spec2Model ----
(***************************************************************************)
(* State-machine model of the face validation / recognition service:       *)
(*   src/src/services/faceValidationService.js  (quality gate)             *)
(*   src/src/services/faceRecognitionService.js (best-match matcher)       *)
(*   src/src/server.js                          (HTTP handlers, start-up)  *)
(*                                                                         *)
(* Numbers.  The JavaScript code works on doubles; the model works on      *)
(* fixed-point integers.  Detection scores are in hundredths (0.9 = 90),   *)
(* descriptor coordinates, distances, similarities and thresholds are in   *)
(* twentieths (0.5 = 10, 1 = 20), luminance weights are in thousandths     *)
(* (0.299 = 299).  Ratios are compared by cross-multiplication.            *)
(* Reason strings are the source's, with the accents dropped.              *)
(***************************************************************************)
EXTENDS Integers, Sequences, FiniteSets, TLC

VARIABLES
    modelsLoaded,   \* faceValidationService.js: module flag
    modelsReady,    \* server.js: module flag
    srv,            \* server.js: position of startServer()
    pending,        \* the initialize() calls suspended at the await of the load
    call,           \* the operation in progress / last performed, with its inputs
    ret,            \* what that operation returned or threw
    resp            \* the HTTP response sent by a request handler

vars == <<modelsLoaded, modelsReady, srv, pending, call, ret, resp>>

----------------------------------------------------------------------------
(* JavaScript values that may be absent.                                   *)

Undefined == [def |-> FALSE]
Some(v) == [def |-> TRUE, v |-> v]

(* Outcome of a call: a returned value or a thrown exception.              *)
Returned(v) == [outcome |-> "returned", value |-> v]
Threw(e) == [outcome |-> "threw", error |-> e]

----------------------------------------------------------------------------
(* Quality gate: faceValidationService.js                                  *)

ERR_MODELS_NOT_LOADED == "Models not loaded. Call initialize() first."
ERR_NO_FACE == "Nenhum rosto detectado na foto"
ERR_LOW_SCORE == "Qualidade da deteccao baixa - tire outra foto"
ERR_TOO_FAR == "Rosto muito distante - aproxime-se da camera"
ERR_TOO_CLOSE == "Rosto muito proximo - afaste-se da camera"
ERR_NOT_CENTERED == "Rosto nao centralizado - posicione-se no centro"
ERR_TOO_DARK == "Foto muito escura - melhore a iluminacao"
ERR_TOO_BRIGHT == "Foto muito clara - reduza a iluminacao"
ERR_PROCESSING == "Erro ao processar a imagem"

QualityReasons ==
    {ERR_LOW_SCORE, ERR_TOO_FAR, ERR_TOO_CLOSE, ERR_NOT_CENTERED,
     ERR_TOO_DARK, ERR_TOO_BRIGHT}

Abs(n) == IF n < 0 THEN -n ELSE n

(* checkBrightness: the sum of 0.299 r + 0.587 g + 0.114 b over the pixels  *)
(* (in thousandths), and the pixel count it is divided by.                  *)
RECURSIVE LuminanceSum(_)
LuminanceSum(data) ==
    IF data = <<>> THEN 0
    ELSE 299 * Head(data)[1] + 587 * Head(data)[2] + 114 * Head(data)[3]
         + LuminanceSum(Tail(data))

checkBrightness(data) == [sum |-> LuminanceSum(data), n |-> Len(data)]

(* brightness < c  and  brightness > c  for the quotient sum / n.           *)
BrightnessBelow(b, c) == b.sum < c * 1000 * b.n
BrightnessAbove(b, c) == b.sum > c * 1000 * b.n

(* The four checks of lines 105-137; each yields zero or one reason.        *)
ConfidenceCheck(det) ==
    IF det.score < 90 THEN <<ERR_LOW_SCORE>> ELSE <<>>

SizeCheck(det, w, h) ==
    LET faceArea == det.box.width * det.box.height
        imageArea == w * h
    IN  IF 10 * faceArea < imageArea THEN <<ERR_TOO_FAR>>
        ELSE IF 10 * faceArea > 6 * imageArea THEN <<ERR_TOO_CLOSE>>
        ELSE <<>>

(* xOffset > canvas.width * 0.25, with both sides multiplied by 4           *)
CenterCheck(det, w) ==
    LET xOffset4 == Abs(4 * det.box.x + 2 * det.box.width - 2 * w)
    IN  IF xOffset4 > w THEN <<ERR_NOT_CENTERED>> ELSE <<>>

BrightnessCheck(data) ==
    LET brightness == checkBrightness(data)
    IN  IF BrightnessBelow(brightness, 60) THEN <<ERR_TOO_DARK>>
        ELSE IF BrightnessAbove(brightness, 200) THEN <<ERR_TOO_BRIGHT>>
        ELSE <<>>

(* Mutant of QualityErrors: the checks short-circuit after the first reason *)
QualityErrorsShortCircuit(det, img) ==
    LET c1 == ConfidenceCheck(det)
        c2 == SizeCheck(det, img.width, img.height)
        c3 == CenterCheck(det, img.width)
        c4 == BrightnessCheck(img.data)
    IN  IF c1 # <<>> THEN c1
        ELSE IF c2 # <<>> THEN c2
        ELSE IF c3 # <<>> THEN c3
        ELSE c4

QualityErrors(det, img) ==
    ConfidenceCheck(det) \o SizeCheck(det, img.width, img.height)
        \o CenterCheck(det, img.width) \o BrightnessCheck(img.data)

(* The object literal of lines 141-154.                                     *)
ValidationValue(errors, detection) ==
    [isValid |-> errors = <<>>,
     errors |-> errors,
     descriptor |-> IF detection.def THEN Some(detection.v.descriptor) ELSE Undefined,
     detectionScore |-> IF detection.def THEN Some(detection.v.score) ELSE Undefined,
     faceBox |-> IF detection.def THEN Some(detection.v.box) ELSE Undefined]

(* The value returned by the catch block, lines 155-159: no other field.    *)
ValidationFailure(errors) ==
    [isValid |-> FALSE,
     errors |-> errors,
     descriptor |-> Undefined,
     detectionScore |-> Undefined,
     faceBox |-> Undefined]

(* Mutant of validateAndExtractDescriptor: the catch block re-throws.       *)
validateRethrows(loaded, img) ==
    IF ~loaded THEN Threw(ERR_MODELS_NOT_LOADED)
    ELSE IF img.fail \in {"decode", "detect"}
    THEN Threw(img.fail)
    ELSE LET detection == img.detection
             errors == IF ~detection.def THEN <<ERR_NO_FACE>>
                       ELSE QualityErrors(detection.v, img)
         IN  Returned(ValidationValue(errors, detection))

(* Mutant of validateAndExtractDescriptor: quality reasons are pushed even  *)
(* when no face was found (the else of line 102 is lost).                   *)
validateNoElse(loaded, img) ==
    IF ~loaded THEN Threw(ERR_MODELS_NOT_LOADED)
    ELSE IF img.fail \in {"decode", "detect"}
    THEN Returned(ValidationFailure(<<ERR_PROCESSING>>))
    ELSE LET detection == img.detection
             errors == IF ~detection.def
                       THEN <<ERR_NO_FACE>> \o BrightnessCheck(img.data)
                       ELSE QualityErrors(detection.v, img)
         IN  Returned(ValidationValue(errors, detection))

(* validateAndExtractDescriptor(imageBuffer), lines 75-160.  img.fail names *)
(* the step of the try block that throws, if any: loadImage ("decode") or   *)
(* detectSingleFace ("detect"); both come before any errors.push.           *)
validateAndExtractDescriptor(loaded, img) ==
    IF ~loaded THEN Threw(ERR_MODELS_NOT_LOADED)
    ELSE IF img.fail \in {"decode", "detect"}
    THEN Returned(ValidationFailure(<<ERR_PROCESSING>>))
    ELSE LET detection == img.detection
             errors == IF ~detection.def THEN <<ERR_NO_FACE>>
                       ELSE QualityErrors(detection.v, img)
         IN  Returned(ValidationValue(errors, detection))

----------------------------------------------------------------------------
(* JavaScript values of the request / store entries.                       *)

Str(s) == [def |-> TRUE, t |-> "string", s |-> s]
Arr(a) == [def |-> TRUE, t |-> "array", a |-> a]

IsString(v) == v.def /\ v.t = "string"
IsArray(v) == v.def /\ v.t = "array"

(* JavaScript truthiness of a field: undefined and "" are falsy.            *)
Truthy(v) == v.def /\ (v.t = "string" => v.s # "")

(* A store entry that is an object, by its five fields the code reads.      *)
Obj(label, descriptor, nome, codigoHub, face) ==
    [kind |-> "object", label |-> label, descriptor |-> descriptor,
     nome |-> nome, codigoHub |-> codigoHub, face |-> face]

(* JSON.stringify({nome, codigoHub})                                        *)
JSONStringify(nome, codigoHub) ==
    "{\"nome\":\"" \o nome \o "\",\"codigoHub\":\"" \o codigoHub \o "\"}"

(* JSON.parse on the strings that occur: numeric arrays, {nome, codigoHub}  *)
(* objects and one store entry; any other text is a SyntaxError.            *)
NomeValues == {"Ana", "unknown"}
CodigoValues == {"H1", "unknown"}

JSONParse(s) ==
    IF s = "[0,0]" THEN [ok |-> TRUE, t |-> "array", a |-> <<0, 0>>]
    ELSE IF s = "[0.3,0.4]" THEN [ok |-> TRUE, t |-> "array", a |-> <<6, 8>>]
    ELSE IF s = "{\"label\":\"bob\",\"descriptor\":[0.3,0.4]}"
    THEN [ok |-> TRUE, t |-> "entry",
          o |-> Obj(Str("bob"), Arr(<<6, 8>>), Undefined, Undefined, Undefined)]
    ELSE IF \E n \in NomeValues, c \in CodigoValues : s = JSONStringify(n, c)
    THEN LET nc == CHOOSE p \in NomeValues \X CodigoValues :
                       s = JSONStringify(p[1], p[2])
         IN  [ok |-> TRUE, t |-> "object",
              o |-> [nome |-> nc[1], codigoHub |-> nc[2]]]
    ELSE [ok |-> FALSE, error |-> "SyntaxError"]

----------------------------------------------------------------------------
(* Label codec: the .map callback of faceRecognitionService.js 44-80 and    *)
(* 164-196.  The result is a labelled descriptor, null (filtered out), or   *)
(* an exception thrown out of the callback.                                 *)

Labeled(label, descriptor) == [r |-> "labeled", label |-> label, descriptor |-> descriptor]
Null == [r |-> "null"]
Throws(e) == [r |-> "throws", error |-> e]

ERR_TYPE == "TypeError"
ERR_SYNTAX == "SyntaxError"
ERR_LABELED == "LabeledFaceDescriptors - constructor expected descriptors to be an array of Float32Array"
ERR_LENGTH == "euclideanDistance: arr1.length !== arr2.length"

(* new LabeledFaceDescriptors(label, [descriptor]): the descriptor must be  *)
(* a Float32Array, which here is what Float32Array.from made of an array.   *)
NewLabeledFaceDescriptors(label, descriptor) ==
    IF IsArray(descriptor) THEN Labeled(label, descriptor.a) ELSE Throws(ERR_LABELED)

normalizeEntry(stored) ==
    IF stored.kind = "null" THEN Throws(ERR_TYPE)         \* null.label
    ELSE IF stored.kind # "object" THEN Null              \* no such properties
    ELSE IF Truthy(stored.label) /\ Truthy(stored.descriptor)
    THEN NewLabeledFaceDescriptors(stored.label.s, stored.descriptor)
    ELSE IF Truthy(stored.nome) /\ Truthy(stored.codigoHub) /\ Truthy(stored.face)
    THEN LET label == JSONStringify(stored.nome.s, stored.codigoHub.s)
         IN  IF IsString(stored.face)
             THEN LET parsed == JSONParse(stored.face.s)
                  IN  IF parsed.ok /\ parsed.t = "array"
                      THEN Labeled(label, parsed.a)
                      ELSE Throws(ERR_SYNTAX)
             ELSE Labeled(label, stored.face.a)
    ELSE IF Truthy(stored.descriptor)
    THEN LET nome == IF Truthy(stored.nome) THEN stored.nome.s ELSE "unknown"
             codigoHub == IF Truthy(stored.codigoHub) THEN stored.codigoHub.s ELSE "unknown"
         IN  NewLabeledFaceDescriptors(JSONStringify(nome, codigoHub), stored.descriptor)
    ELSE Null

(* storedDescriptors.map(...).filter(Boolean): the first exception thrown   *)
(* by the callback, in store order, aborts the map.                         *)
RECURSIVE normalizeStore(_)
normalizeStore(store) ==
    IF store = <<>> THEN [ok |-> TRUE, labeled |-> <<>>]
    ELSE LET first == normalizeEntry(Head(store))
         IN  IF first.r = "throws" THEN [ok |-> FALSE, error |-> first.error]
             ELSE LET rest == normalizeStore(Tail(store))
                  IN  IF ~rest.ok THEN rest
                      ELSE IF first.r = "null" THEN rest
                      ELSE [ok |-> TRUE, labeled |-> <<first>> \o rest.labeled]

----------------------------------------------------------------------------
(* FaceMatcher of face-api.js, as the two services use it (lines 87-90 and  *)
(* 203-206): new FaceMatcher(labeledDescriptors) is built without a second  *)
(* argument, so the matcher's own distanceThreshold stays at its default.   *)

DEFAULT_DISTANCE_THRESHOLD == 10     \* distanceThreshold = 0.5
FACE_MATCHER_THRESHOLD == 12         \* FaceMatcher's own default, 0.6
SERVER_DEFAULT_THRESHOLD == 12       \* threshold = 0.6 in server.js
ONE == 20                            \* the 1 of 1 - distance, in twentieths

(* Math.sqrt on the fixed-point grid: the largest r with r * r <= n.        *)
Sqrt(n) == CHOOSE r \in 0..n : r * r <= n /\ (r + 1) * (r + 1) > n

RECURSIVE SumSquares(_, _)
SumSquares(a, b) ==
    IF a = <<>> THEN 0
    ELSE (Head(a) - Head(b)) * (Head(a) - Head(b)) + SumSquares(Tail(a), Tail(b))

(* euclideanDistance(arr1, arr2): throws when the lengths differ.           *)
euclideanDistance(a, b) ==
    IF Len(a) # Len(b) THEN [ok |-> FALSE, error |-> ERR_LENGTH]
    ELSE [ok |-> TRUE, d |-> Sqrt(SumSquares(a, b))]

FaceMatch(label, distance) == [label |-> label, distance |-> distance]

(* labeledDescriptors.map(l => new FaceMatch(l.label, meanDistance)): every *)
(* label holds exactly one descriptor, so the mean is that one distance.    *)
RECURSIVE faceMatches(_, _)
faceMatches(query, labeled) ==
    IF labeled = <<>> THEN [ok |-> TRUE, matches |-> <<>>]
    ELSE LET dist == euclideanDistance(query, Head(labeled).descriptor)
         IN  IF ~dist.ok THEN [ok |-> FALSE, error |-> dist.error]
             ELSE LET rest == faceMatches(query, Tail(labeled))
                  IN  IF ~rest.ok THEN rest
                      ELSE [ok |-> TRUE,
                            matches |-> <<FaceMatch(Head(labeled).label, dist.d)>>
                                        \o rest.matches]

(* Mutant of reduceBest: keeps the larger distance.                         *)
RECURSIVE reduceWorst(_, _)
reduceWorst(best, rest) ==
    IF rest = <<>> THEN best
    ELSE reduceWorst(IF best.distance > Head(rest).distance THEN best ELSE Head(rest),
                     Tail(rest))

(* .reduce((best, curr) => best.distance < curr.distance ? best : curr)     *)
RECURSIVE reduceFirst(_, _)
(* A reduce that keeps the earlier of two entries at the same distance.     *)
reduceFirst(best, rest) ==
    IF rest = <<>> THEN best
    ELSE reduceFirst(IF best.distance <= Head(rest).distance THEN best ELSE Head(rest),
                     Tail(rest))

RECURSIVE reduceBest(_, _)
reduceBest(best, rest) ==
    IF rest = <<>> THEN best
    ELSE reduceBest(IF best.distance < Head(rest).distance THEN best ELSE Head(rest),
                    Tail(rest))

(* matchDescriptor: the FaceMatch of smallest distance, or the exception.   *)
matchDescriptor(query, labeled) ==
    LET fm == faceMatches(query, labeled)
    IN  IF ~fm.ok THEN fm
        ELSE [ok |-> TRUE, match |-> reduceBest(Head(fm.matches), Tail(fm.matches))]

(* findBestMatch: bestMatch.distance < distanceThreshold ? bestMatch        *)
(*                : new FaceMatch("unknown", bestMatch.distance)            *)
findBestMatch(query, labeled) ==
    LET m == matchDescriptor(query, labeled)
    IN  IF ~m.ok THEN m
        ELSE IF m.match.distance < FACE_MATCHER_THRESHOLD THEN m
        ELSE [ok |-> TRUE, match |-> FaceMatch("unknown", m.match.distance)]

----------------------------------------------------------------------------
(* The decision of lines 92-132 and 208-247, shared by both entry points.   *)

REASON_LOW_CONFIDENCE == "Face not recognized with sufficient confidence"
REASON_UNKNOWN == "Face not recognized"

NotMatched(reason, distance) ==
    [matched |-> FALSE, reason |-> reason, distance |-> distance, label |-> "unknown"]

(* JSON.parse(bestMatch.label), or { label: bestMatch.label } when it fails *)
participantData(label) ==
    LET parsed == JSONParse(label)
    IN  IF parsed.ok /\ parsed.t = "object" THEN [parsed |-> TRUE, data |-> parsed.o]
        ELSE [parsed |-> FALSE, label |-> label]

Matched(bestMatch) ==
    [matched |-> TRUE, distance |-> bestMatch.distance,
     similarity |-> ONE - bestMatch.distance,
     participant |-> participantData(bestMatch.label),
     label |-> bestMatch.label]

(* Mutant of decide: the threshold test is lost.                            *)
decideNoThreshold(bestMatch, distanceThreshold) ==
    IF bestMatch.label = "unknown"
    THEN <<NotMatched(REASON_UNKNOWN, bestMatch.distance)>>
    ELSE <<Matched(bestMatch)>>

(* Mutant of decide: the "unknown" test is lost.                            *)
decideNoUnknown(bestMatch, distanceThreshold) ==
    IF bestMatch.distance > distanceThreshold
    THEN <<NotMatched(REASON_LOW_CONFIDENCE, bestMatch.distance)>>
    ELSE <<Matched(bestMatch)>>

decide(bestMatch, distanceThreshold) ==
    IF bestMatch.distance > distanceThreshold
    THEN <<NotMatched(REASON_LOW_CONFIDENCE, bestMatch.distance)>>
    ELSE IF bestMatch.label = "unknown"
    THEN <<NotMatched(REASON_UNKNOWN, bestMatch.distance)>>
    ELSE <<Matched(bestMatch)>>

(* Lines 44-132 / 164-247 once the query descriptor is known.               *)
matchAgainstStore(queryDesc, storedDescriptors, distanceThreshold) ==
    LET norm == normalizeStore(storedDescriptors)
    IN  IF ~norm.ok THEN Threw(norm.error)
        ELSE IF norm.labeled = <<>> THEN Returned(<<>>)
        ELSE LET best == findBestMatch(queryDesc, norm.labeled)
             IN  IF ~best.ok THEN Threw(best.error)
                 ELSE Returned(decide(best.match, distanceThreshold))

(* A default parameter value applies exactly when the argument is undefined *)
DefaultParam(arg, default) == IF arg.def THEN arg.v ELSE default

(* findMatches(imageBuffer, storedDescriptors, distanceThreshold = 0.5)     *)
findMatches(img, storedDescriptors, threshold) ==
    IF img.fail \in {"decode", "detect"} THEN Threw(img.fail)
    ELSE IF ~img.detection.def THEN Returned(<<>>)
    ELSE matchAgainstStore(img.detection.v.descriptor, storedDescriptors,
                           DefaultParam(threshold, DEFAULT_DISTANCE_THRESHOLD))

(* findMatchesByDescriptor(queryDescriptor, storedDescriptors,              *)
(*                         distanceThreshold = 0.5)                         *)
findMatchesByDescriptor(queryDescriptor, storedDescriptors, threshold) ==
    LET parsed == IF IsString(queryDescriptor) THEN JSONParse(queryDescriptor.s)
                  ELSE [ok |-> TRUE, t |-> "array", a |-> queryDescriptor.a]
    IN  IF ~(parsed.ok /\ parsed.t = "array") THEN Threw(ERR_SYNTAX)
        ELSE matchAgainstStore(parsed.a, storedDescriptors,
                               DefaultParam(threshold, DEFAULT_DISTANCE_THRESHOLD))

----------------------------------------------------------------------------
(* HTTP handlers: server.js                                                 *)

NoResponse == [status |-> 0]
NoCall == [outcome |-> "none"]
Response(status, body) == [status |-> status, body |-> body]

MSG_LOADING == "Models are still loading. Please try again in a moment."
MSG_NO_IMAGE == "No image provided"
MSG_NO_DESCRIPTOR == "No descriptor provided. Send descriptor in body.descriptor"
MSG_NO_DESCRIPTORS == "No descriptors provided. Send array of descriptors in body.descriptors"
MSG_INTERNAL == "Internal server error"

ErrorBody(error) == [error |-> error]

(* descriptors.map(desc => typeof desc === "string" ? try JSON.parse : desc) *)
parseElement(desc) ==
    IF desc.kind # "string" THEN desc
    ELSE LET parsed == JSONParse(desc.s)
         IN  IF ~parsed.ok THEN desc
             ELSE IF parsed.t = "entry" THEN parsed.o
             ELSE IF parsed.t = "array" THEN [kind |-> "array", a |-> parsed.a]
             ELSE [kind |-> "object", label |-> Undefined, descriptor |-> Undefined,
                   nome |-> Str(parsed.o.nome), codigoHub |-> Str(parsed.o.codigoHub),
                   face |-> Undefined]

parseDescriptors(descriptors) ==
    [i \in 1..Len(descriptors) |-> parseElement(descriptors[i])]

(* Mutant of validateResponseBody: the failure body is the whole result.    *)
validateResponseBodyFull(result) ==
    [isValid |-> result.isValid,
     errors |-> IF result.isValid THEN Undefined ELSE Some(result.errors),
     descriptor |-> result.descriptor,
     detectionScore |-> result.detectionScore,
     faceBox |-> result.faceBox,
     message |-> IF result.isValid THEN "Face validated successfully"
                 ELSE "Face validation failed"]

(* The two res.json bodies of POST /api/validate, lines 102-116.            *)
validateResponseBody(result) ==
    IF ~result.isValid
    THEN [isValid |-> FALSE,
          errors |-> Some(result.errors),
          descriptor |-> Undefined,
          detectionScore |-> Undefined,
          faceBox |-> Undefined,
          message |-> "Face validation failed"]
    ELSE [isValid |-> TRUE,
          errors |-> Undefined,
          descriptor |-> result.descriptor,
          detectionScore |-> result.detectionScore,
          faceBox |-> result.faceBox,
          message |-> "Face validated successfully"]

(* POST /api/validate, lines 54-124: the service call made (if any) and the *)
(* response.  req.image is undefined when neither req.file nor body.image.  *)
postValidate(ready, loaded, req) ==
    IF ~ready THEN [inner |-> NoCall, resp |-> Response(503, ErrorBody(MSG_LOADING))]
    ELSE IF ~req.image.def
    THEN [inner |-> NoCall, resp |-> Response(400, ErrorBody(MSG_NO_IMAGE))]
    ELSE LET result == validateAndExtractDescriptor(loaded, req.image.v)
         IN  [inner |-> result,
              resp |-> IF result.outcome = "threw"
                       THEN Response(500, ErrorBody(MSG_INTERNAL))
                       ELSE Response(200, validateResponseBody(result.value))]

(* !descriptors || !Array.isArray(descriptors) || descriptors.length === 0  *)
NoDescriptors(descriptors) == ~descriptors.def \/ descriptors.v = <<>>

(* POST /api/recognize, lines 127-186.                                      *)
postRecognize(ready, req) ==
    IF ~ready THEN [inner |-> NoCall, resp |-> Response(503, ErrorBody(MSG_LOADING))]
    ELSE IF ~req.image.def
    THEN [inner |-> NoCall, resp |-> Response(400, ErrorBody(MSG_NO_IMAGE))]
    ELSE IF NoDescriptors(req.descriptors)
    THEN [inner |-> NoCall, resp |-> Response(400, ErrorBody(MSG_NO_DESCRIPTORS))]
    ELSE LET matches == findMatches(req.image.v, parseDescriptors(req.descriptors.v),
                                    Undefined)
         IN  [inner |-> matches,
              resp |-> IF matches.outcome = "threw"
                       THEN Response(500, ErrorBody(MSG_INTERNAL))
                       ELSE Response(200, [matches |-> matches.value])]

(* The descriptor of the body: a string is JSON.parsed when it parses.      *)
parseQuery(descriptor) ==
    IF IsString(descriptor)
    THEN LET parsed == JSONParse(descriptor.s)
         IN  IF parsed.ok /\ parsed.t = "array" THEN Arr(parsed.a) ELSE descriptor
    ELSE descriptor

(* POST /api/recognize-descriptor, lines 189-256:                           *)
(* const { descriptor, descriptors, threshold = 0.6 } = req.body            *)
postRecognizeDescriptor(ready, req) ==
    IF ~ready THEN [inner |-> NoCall, resp |-> Response(503, ErrorBody(MSG_LOADING))]
    ELSE IF ~Truthy(req.descriptor)
    THEN [inner |-> NoCall, resp |-> Response(400, ErrorBody(MSG_NO_DESCRIPTOR))]
    ELSE IF NoDescriptors(req.descriptors)
    THEN [inner |-> NoCall, resp |-> Response(400, ErrorBody(MSG_NO_DESCRIPTORS))]
    ELSE LET threshold == DefaultParam(req.threshold, SERVER_DEFAULT_THRESHOLD)
             matches == findMatchesByDescriptor(parseQuery(req.descriptor),
                            parseDescriptors(req.descriptors.v), Some(threshold))
         IN  [inner |-> matches,
              resp |-> IF matches.outcome = "threw"
                       THEN Response(500, ErrorBody(MSG_INTERNAL))
                       ELSE Response(200, [matches |-> matches.value,
                                           threshold |-> threshold])]

----------------------------------------------------------------------------
(* Inputs                                                                   *)

MaxStore == 2        \* longest reference store / descriptors array

(* Descriptors, of two coordinates: from D00, D34 is at distance 0.5, D55   *)
(* at 0.55 and D60 at 0.6.                                                  *)
D00 == <<0, 0>>
D34 == <<6, 8>>
D55 == <<11, 0>>
D60 == <<12, 0>>

Black == <<0, 0, 0>>
Gray60 == <<60, 60, 60>>
Gray200 == <<200, 200, 200>>
White == <<255, 255, 255>>
Palette == {Black, Gray60, Gray200, White}

ImageSizes == {<<20, 1>>, <<10, 2>>}
Scores == {50, 89, 90, 95}
BoxXs == {0, 4, 9}
BoxWidths == {1, 2, 12, 13}

(* RGBA data of a w x h canvas: the first k pixels c1, the others c2.       *)
PixelData(n, k, c1, c2) == [i \in 1..n |-> IF i <= k THEN c1 ELSE c2]

PixelDatas(n) ==
    {PixelData(n, k, c1, c2) : k \in {0, n \div 2}, c1 \in Palette, c2 \in Palette}

Detection(score, x, width, descriptor) ==
    [score |-> score,
     box |-> [x |-> x, y |-> 0, width |-> width, height |-> 1],
     descriptor |-> descriptor]

Image(fail, size, data, detection) ==
    [fail |-> fail, width |-> size[1], height |-> size[2], data |-> data,
     detection |-> detection]

PlainImage(fail, detection) ==
    Image(fail, <<20, 1>>, PixelData(20, 0, Black, Gray200), detection)

(* What the quality gate may be given: an undecodable buffer, an image the  *)
(* detector fails on, an image without a face, an image with one.           *)
GateImages ==
    {PlainImage("decode", Undefined), PlainImage("detect", Undefined)}
    \cup {Image("none", size, data, Undefined) :
              size \in ImageSizes, data \in PixelDatas(20)}
    \cup {Image("none", size, data, Some(Detection(score, x, width, D34))) :
              size \in ImageSizes, data \in PixelDatas(20),
              score \in Scores, x \in BoxXs, width \in BoxWidths}

(* What the matcher may be given as the query image.                        *)
MatchImages ==
    {PlainImage("decode", Undefined), PlainImage("detect", Undefined),
     PlainImage("none", Undefined),
     PlainImage("none", Some(Detection(95, 9, 2, D00))),
     PlainImage("none", Some(Detection(95, 9, 2, D34)))}

LabelAna == JSONStringify("Ana", "H1")

EntryA(label, descriptor) == Obj(Str(label), descriptor, Undefined, Undefined, Undefined)
EntryB(face) == Obj(Undefined, Undefined, Str("Ana"), Str("H1"), face)
EntryC(descriptor, nome) == Obj(Undefined, descriptor, nome, Undefined, Undefined)

WellFormedEntries ==
    {EntryA("alice", Arr(D00)), EntryA("bob", Arr(D34)), EntryA(LabelAna, Arr(D34)),
     EntryA("alice", Arr(D55)), EntryA("unknown", Arr(D00)),
     EntryB(Str("[0,0]")), EntryC(Arr(D34), Undefined), EntryC(Arr(D60), Str("Ana"))}

(* Entries whose descriptor / face is a string that is no JSON.             *)
MalformedEntries ==
    {EntryB(Str("not json")), EntryA("alice", Str("not json"))}

OtherEntries ==
    {Obj(Undefined, Undefined, Undefined, Undefined, Str("[0.3,0.4]")),   \* {id, face}
     [kind |-> "null"],
     EntryA("alice", Arr(<<10>>))}                                    \* wrong length

Entries == WellFormedEntries \cup MalformedEntries \cup OtherEntries

(* Elements of body.descriptors: entries, and strings to be JSON.parsed.    *)
HttpElements ==
    {EntryA("alice", Arr(D00)), EntryA("alice", Arr(D55)), EntryA("unknown", Arr(D34)),
     EntryB(Str("[0,0]")), EntryB(Str("not json")),
     [kind |-> "string", s |-> "{\"label\":\"bob\",\"descriptor\":[0.3,0.4]}"],
     [kind |-> "string", s |-> "not json"],
     [kind |-> "array", a |-> D34]}

SeqsUpTo(S, n) == UNION {[1..k -> S] : k \in 0..n}

Stores == SeqsUpTo(Entries, MaxStore)
HttpStores == SeqsUpTo(HttpElements, MaxStore)

Queries == {Arr(D00), Arr(D34), Str("[0.3,0.4]"), Str("not json")}

(* omitted, 0.3, 0.6, 0.8                                                   *)
Thresholds == {Undefined, Some(6), Some(12), Some(16)}

----------------------------------------------------------------------------
(* The state machine                                                        *)

Idle == [op |-> "none"]

Init ==
    /\ modelsLoaded = FALSE
    /\ modelsReady = FALSE
    /\ srv = "starting"
    /\ pending = {}
    /\ call = Idle
    /\ ret = NoCall
    /\ resp = NoResponse

(* startServer -> initializeModels -> initialize(): the load succeeds,      *)
(* modelsLoaded and then modelsReady are set.                               *)
InitializeModelsOk ==
    /\ srv = "starting"
    /\ call = Idle
    /\ modelsLoaded' = TRUE
    /\ modelsReady' = TRUE
    /\ srv' = "ready"
    /\ UNCHANGED <<pending, call, ret, resp>>

(* The load fails: initialize() throws, initializeModels exits the process. *)
InitializeModelsFail ==
    /\ srv = "starting"
    /\ call = Idle
    /\ srv' = "exited"
    /\ UNCHANGED <<pending, modelsLoaded, modelsReady, call, ret, resp>>

(* app.listen, not awaiting initializeModels().                              *)
ListenEarly ==
    /\ srv = "loading"
    /\ call = Idle
    /\ srv' = "listening"
    /\ UNCHANGED <<pending, modelsLoaded, modelsReady, call, ret, resp>>

(* app.listen                                                               *)
Listen ==
    /\ srv = "ready"
    /\ call = Idle
    /\ srv' = "listening"
    /\ UNCHANGED <<pending, modelsLoaded, modelsReady, call, ret, resp>>

(* A direct call of the exported validateAndExtractDescriptor.              *)
CallValidate ==
    /\ srv # "exited"
    /\ call = Idle
    /\ \E img \in GateImages :
        /\ call' = [op |-> "validate", img |-> img, loaded |-> modelsLoaded]
        /\ ret' = validateAndExtractDescriptor(modelsLoaded, img)
    /\ UNCHANGED <<pending, modelsLoaded, modelsReady, srv, resp>>

(* A direct call of the exported findMatches.                               *)
CallFindMatches ==
    /\ srv # "exited"
    /\ call = Idle
    /\ \E img \in MatchImages, store \in Stores, threshold \in Thresholds :
        /\ call' = [op |-> "findMatches", img |-> img, store |-> store,
                    threshold |-> threshold]
        /\ ret' = findMatches(img, store, threshold)
    /\ UNCHANGED <<pending, modelsLoaded, modelsReady, srv, resp>>

(* A direct call of the exported findMatchesByDescriptor.                   *)
CallFindMatchesByDescriptor ==
    /\ srv # "exited"
    /\ call = Idle
    /\ \E query \in Queries, store \in Stores, threshold \in Thresholds :
        /\ call' = [op |-> "findMatchesByDescriptor", query |-> query,
                    store |-> store, threshold |-> threshold]
        /\ ret' = findMatchesByDescriptor(query, store, threshold)
    /\ UNCHANGED <<pending, modelsLoaded, modelsReady, srv, resp>>

(* POST /api/validate                                                       *)
PostValidate ==
    /\ srv = "listening"
    /\ call = Idle
    /\ \E image \in {Undefined} \cup {Some(img) : img \in GateImages} :
        LET req == [image |-> image]
            out == postValidate(modelsReady, modelsLoaded, req)
        IN  /\ call' = [op |-> "POST /api/validate", req |-> req]
            /\ ret' = out.inner
            /\ resp' = out.resp
    /\ UNCHANGED <<pending, modelsLoaded, modelsReady, srv>>

(* POST /api/recognize                                                      *)
PostRecognize ==
    /\ srv = "listening"
    /\ call = Idle
    /\ \E image \in {Undefined} \cup {Some(img) : img \in MatchImages},
          descriptors \in {Undefined} \cup {Some(st) : st \in HttpStores} :
        LET req == [image |-> image, descriptors |-> descriptors,
                    threshold |-> Undefined]
            out == postRecognize(modelsReady, req)
        IN  /\ call' = [op |-> "POST /api/recognize", req |-> req]
            /\ ret' = out.inner
            /\ resp' = out.resp
    /\ UNCHANGED <<pending, modelsLoaded, modelsReady, srv>>

(* POST /api/recognize-descriptor                                           *)
PostRecognizeDescriptor ==
    /\ srv = "listening"
    /\ call = Idle
    /\ \E descriptor \in {Undefined} \cup Queries,
          descriptors \in {Undefined} \cup {Some(st) : st \in HttpStores},
          threshold \in Thresholds :
        LET req == [descriptor |-> descriptor, descriptors |-> descriptors,
                    threshold |-> threshold]
            out == postRecognizeDescriptor(modelsReady, req)
        IN  /\ call' = [op |-> "POST /api/recognize-descriptor", req |-> req]
            /\ ret' = out.inner
            /\ resp' = out.resp
    /\ UNCHANGED <<pending, modelsLoaded, modelsReady, srv>>

(* The caller has its result; the next operation may begin.                 *)
Return ==
    /\ call # Idle
    /\ call' = Idle
    /\ ret' = NoCall
    /\ resp' = NoResponse
    /\ UNCHANGED <<pending, modelsLoaded, modelsReady, srv>>

Next ==
    \/ InitializeModelsOk
    \/ InitializeModelsFail
    \/ Listen
    \/ CallValidate
    \/ CallFindMatches
    \/ CallFindMatchesByDescriptor
    \/ PostValidate
    \/ PostRecognize
    \/ PostRecognizeDescriptor
    \/ Return

Spec == Init /\ [][Next]_vars

----------------------------------------------------------------------------
(* Start-up step by step, next to other callers of the exported             *)
(* initialize().  Every await is a point where other callbacks may run.     *)

ServerCaller == "startServer"
OtherCallers == {"a", "b"}

(* initialize() up to its await, lines 18-47: return at once when           *)
(* modelsLoaded, else start loading the four nets and suspend.              *)
initialize(c) ==
    IF modelsLoaded THEN UNCHANGED pending ELSE pending' = pending \cup {c}

(* startServer() -> initializeModels() -> initialize()                      *)
StartServer ==
    /\ srv = "starting"
    /\ call = Idle
    /\ initialize(ServerCaller)
    /\ srv' = IF modelsLoaded THEN "loaded" ELSE "loading"
    /\ UNCHANGED <<modelsLoaded, modelsReady, call, ret, resp>>

(* Another caller of initialize(), not awaiting a call of its own.          *)
CallInitialize ==
    /\ srv # "exited"
    /\ call = Idle
    /\ \E c \in OtherCallers \ pending : initialize(c)
    /\ UNCHANGED <<modelsLoaded, modelsReady, srv, call, ret, resp>>

(* Promise.all resolves for one suspended call: modelsLoaded = true, line   *)
(* 49, and initialize() returns to its caller.                              *)
LoadResolves ==
    /\ srv # "exited"
    /\ call = Idle
    /\ \E c \in pending :
        /\ pending' = pending \ {c}
        /\ srv' = IF c = ServerCaller THEN "loaded" ELSE srv
    /\ modelsLoaded' = TRUE
    /\ UNCHANGED <<modelsReady, call, ret, resp>>

(* Promise.all rejects for one suspended call: initialize() throws, lines   *)
(* 51-54, with modelsLoaded untouched.                                      *)
LoadRejects ==
    /\ srv # "exited"
    /\ call = Idle
    /\ \E c \in pending :
        /\ pending' = pending \ {c}
        /\ srv' = IF c = ServerCaller THEN "failed" ELSE srv
    /\ UNCHANGED <<modelsLoaded, modelsReady, call, ret, resp>>

(* initializeModels() after await initialize(): modelsReady = true          *)
SetModelsReady ==
    /\ srv = "loaded"
    /\ call = Idle
    /\ modelsReady' = TRUE
    /\ srv' = "ready"
    /\ UNCHANGED <<modelsLoaded, pending, call, ret, resp>>

(* initializeModels() catch: process.exit(1)                                *)
ProcessExit ==
    /\ srv = "failed"
    /\ call = Idle
    /\ srv' = "exited"
    /\ UNCHANGED <<modelsLoaded, modelsReady, pending, call, ret, resp>>

NextStartup ==
    \/ StartServer
    \/ CallInitialize
    \/ LoadResolves
    \/ LoadRejects
    \/ SetModelsReady
    \/ ProcessExit
    \/ Listen
    \/ PostValidate
    \/ PostRecognize
    \/ PostRecognizeDescriptor
    \/ Return

SpecStartup == Init /\ [][NextStartup]_vars

----------------------------------------------------------------------------
(* Properties of the quality gate                                           *)

Elements(seq) == {seq[i] : i \in 1..Len(seq)}
Count(b) == IF b THEN 1 ELSE 0

(* The image handed to validateAndExtractDescriptor by the operation in     *)
(* progress, directly or through POST /api/validate.                        *)
GateImage ==
    IF call.op = "validate" THEN Some(call.img)
    ELSE IF call.op = "POST /api/validate" /\ ret.outcome # "none" THEN call.req.image
    ELSE Undefined

GateReturned == GateImage.def /\ ret.outcome = "returned"
FaceDetected == GateReturned /\ GateImage.v.fail = "none" /\ GateImage.v.detection.def
NoFaceDetected == GateReturned /\ GateImage.v.fail = "none" /\ ~GateImage.v.detection.def

(* The four violations, from the inputs of the call.                        *)
LowConfidence(img) == img.detection.v.score < 90
FaceArea(img) == img.detection.v.box.width * img.detection.v.box.height
ImageArea(img) == img.width * img.height
TooFar(img) == 10 * FaceArea(img) < ImageArea(img)
TooClose(img) == 10 * FaceArea(img) > 6 * ImageArea(img)
OffCenter(img) ==
    2 * Abs(2 * img.detection.v.box.x + img.detection.v.box.width - img.width)
        > img.width
TooDark(img) == LuminanceSum(img.data) < 60000 * Len(img.data)
TooBright(img) == LuminanceSum(img.data) > 200000 * Len(img.data)

(* C1: when a face is detected, errors holds exactly one reason per         *)
(* violated check (confidence < 0.9; face area ratio < 0.10 or > 0.60;      *)
(* centre offset > 25% of the width; mean luminance < 60 or > 200), nothing *)
(* else, and isValid is true iff errors is empty.                           *)
C1_AllChecksReported ==
    FaceDetected =>
        LET img == GateImage.v
            errors == ret.value.errors
        IN  /\ (ERR_LOW_SCORE \in Elements(errors)) <=> LowConfidence(img)
            /\ (ERR_TOO_FAR \in Elements(errors)) <=> TooFar(img)
            /\ (ERR_TOO_CLOSE \in Elements(errors)) <=> TooClose(img)
            /\ (ERR_NOT_CENTERED \in Elements(errors)) <=> OffCenter(img)
            /\ (ERR_TOO_DARK \in Elements(errors)) <=> TooDark(img)
            /\ (ERR_TOO_BRIGHT \in Elements(errors)) <=> TooBright(img)
            /\ Elements(errors) \subseteq QualityReasons
            /\ Len(errors) = Count(LowConfidence(img))
                             + Count(TooFar(img) \/ TooClose(img))
                             + Count(OffCenter(img))
                             + Count(TooDark(img) \/ TooBright(img))
            /\ ret.value.isValid <=> (errors = <<>>)

(* A detection of confidence 0.5 on a dark, otherwise acceptable image:     *)
(* both reasons are reported.                                               *)
C1_Witness ==
    /\ FaceDetected
    /\ GateImage.v.detection.v.score = 50
    /\ ret.value.errors = <<ERR_LOW_SCORE, ERR_TOO_DARK>>
    /\ ~ret.value.isValid

(* C2: when no face is found the gate returns isValid = false, the single   *)
(* reason "no face detected" and no descriptor.                             *)
C2_NoFace ==
    NoFaceDetected =>
        /\ ret.value.isValid = FALSE
        /\ ret.value.errors = <<ERR_NO_FACE>>
        /\ ret.value.descriptor = Undefined

(* No face on an image that is also too dark.                               *)
C2_Witness ==
    /\ NoFaceDetected
    /\ TooDark(GateImage.v)
    /\ ret.value.errors = <<ERR_NO_FACE>>

(* validateAndExtractDescriptor carries the detection's descriptor, score   *)
(* and box whenever a face was detected.                                    *)
ResultCarriesDetection ==
    FaceDetected =>
        /\ ret.value.descriptor = Some(GateImage.v.detection.v.descriptor)
        /\ ret.value.detectionScore = Some(GateImage.v.detection.v.score)
        /\ ret.value.faceBox = Some(GateImage.v.detection.v.box)

ValidateResponded == call.op = "POST /api/validate" /\ FaceDetected /\ resp.status = 200

(* C3 as stated: the result and the response of POST /api/validate both     *)
(* carry descriptor, score and box whenever a face was detected.            *)
C3_Original ==
    /\ ResultCarriesDetection
    /\ ValidateResponded =>
          /\ resp.body.descriptor.def
          /\ resp.body.detectionScore.def
          /\ resp.body.faceBox.def

(* C3, amended: the result of validateAndExtractDescriptor carries          *)
(* descriptor, score and box whenever a face was detected, valid or not;    *)
(* the response of POST /api/validate carries them only when isValid is     *)
(* true, and otherwise holds isValid, errors and message alone.             *)
C3_ResultAlwaysResponseWhenValid ==
    /\ ResultCarriesDetection
    /\ ValidateResponded =>
          /\ resp.body.isValid = ret.value.isValid
          /\ resp.body.isValid =>
                /\ resp.body.descriptor = ret.value.descriptor
                /\ resp.body.detectionScore = ret.value.detectionScore
                /\ resp.body.faceBox = ret.value.faceBox
          /\ ~resp.body.isValid =>
                /\ resp.body.errors = Some(ret.value.errors)
                /\ resp.body.descriptor = Undefined
                /\ resp.body.detectionScore = Undefined
                /\ resp.body.faceBox = Undefined

(* A face of low confidence through POST /api/validate: the result has the  *)
(* descriptor, the response has not.                                        *)
C3_Witness ==
    /\ ValidateResponded
    /\ ~ret.value.isValid
    /\ ret.value.descriptor.def
    /\ ~resp.body.descriptor.def

GateFails == GateImage.def /\ GateImage.v.fail \in {"decode", "detect"}

(* C4 as stated: in every state, models loaded or not, the call returns,    *)
(* and a decode or detector failure gives {isValid: false, errors: [one]}.  *)
C4_Original ==
    call.op = "validate" =>
        /\ ret.outcome = "returned"
        /\ GateFails => /\ ret.value.isValid = FALSE
                        /\ ret.value.errors = <<ERR_PROCESSING>>

(* C4, amended: once the models are loaded the gate never throws, and a     *)
(* decode or detector failure gives {isValid: false, errors: [the generic   *)
(* reason]} and nothing else; called before the models are loaded it throws *)
(* "Models not loaded".                                                     *)
C4_NeverThrowsOnceLoaded ==
    call.op = "validate" =>
        IF call.loaded
        THEN /\ ret.outcome = "returned"
             /\ GateFails => ret.value = ValidationFailure(<<ERR_PROCESSING>>)
        ELSE ret = Threw(ERR_MODELS_NOT_LOADED)

(* An undecodable buffer given to the loaded gate.                          *)
C4_Witness ==
    /\ call.op = "validate"
    /\ call.loaded
    /\ call.img.fail = "decode"
    /\ ret.outcome = "returned"
    /\ Len(ret.value.errors) = 1

----------------------------------------------------------------------------
(* Properties of the best-match variant, on the direct calls of findMatches *)
(* and findMatchesByDescriptor.                                             *)

MatchCall == call.op \in {"findMatches", "findMatchesByDescriptor"}

(* The query descriptor of the call, when the call obtains one.             *)
CallQuery ==
    IF call.op = "findMatches"
    THEN IF call.img.fail = "none" /\ call.img.detection.def
         THEN Some(call.img.detection.v.descriptor) ELSE Undefined
    ELSE IF IsArray(call.query) THEN Some(call.query.a)
    ELSE IF JSONParse(call.query.s).ok THEN Some(JSONParse(call.query.s).a)
    ELSE Undefined

(* The threshold the call decides with: the argument, or 0.5 when omitted.  *)
CallThreshold == IF call.threshold.def THEN call.threshold.v ELSE 10

(* A malformed entry: its descriptor or face is a string that is no JSON.   *)
IsMalformed(e) ==
    /\ e.kind = "object"
    /\ \/ IsString(e.face) /\ ~JSONParse(e.face.s).ok
       \/ IsString(e.descriptor) /\ ~JSONParse(e.descriptor.s).ok

(* What the nearest-neighbour search of the call works on.  reached: the    *)
(* call obtains a query, every entry normalises, every reference vector has *)
(* the query's length and one is left at least.  exact: some reference      *)
(* vector equals the query.  throws: an entry cannot be normalised or       *)
(* compared.  best: the minimum distance; labels: the labels at it, first   *)
(* and last: those of the earliest and the latest entry at it.              *)
NoSearch ==
    [reached |-> FALSE, exact |-> FALSE, throws |-> FALSE, best |-> 0,
     labels |-> {}, first |-> "", last |-> "", size |-> 0, far |-> FALSE]

SearchOf(q, store) ==
    LET entries == [i \in 1..Len(store) |-> normalizeEntry(store[i])]
        exact == \E i \in 1..Len(store) :
                     entries[i].r = "labeled" /\ entries[i].descriptor = q
        throws == \E i \in 1..Len(store) :
                      \/ entries[i].r = "throws"
                      \/ entries[i].r = "labeled" /\ Len(entries[i].descriptor) # Len(q)
        labeled == SelectSeq(entries, LAMBDA e : e.r = "labeled")
    IN  IF throws \/ labeled = <<>>
        THEN [reached |-> FALSE, exact |-> exact, throws |-> throws, best |-> 0,
              labels |-> {}, first |-> "", last |-> "", size |-> 0, far |-> FALSE]
        ELSE LET dist == [i \in 1..Len(labeled) |->
                              Sqrt(SumSquares(q, labeled[i].descriptor))]
                 best == CHOOSE d \in Elements(dist) : \A e \in Elements(dist) : d <= e
                 tied == {k \in 1..Len(labeled) : dist[k] = best}
             IN  [reached |-> TRUE, exact |-> exact, throws |-> FALSE, best |-> best,
                  labels |-> {labeled[i].label : i \in tied},
                  first |-> labeled[CHOOSE i \in tied : \A j \in tied : i <= j].label,
                  last |-> labeled[CHOOSE i \in tied : \A j \in tied : i >= j].label,
                  size |-> Len(labeled),
                  far |-> \E k \in 1..Len(labeled) : dist[k] > best]

Search ==
    IF MatchCall /\ CallQuery.def THEN SearchOf(CallQuery.v, call.store) ELSE NoSearch

OneResult == ret.outcome = "returned" /\ Len(ret.value) = 1

(* C5 as stated: if the minimum distance d is <= t and the winning label is *)
(* not "unknown", the result is one Matched result with that label,         *)
(* distance d, similarity 1 - d and the decoded label, for every threshold. *)
C5_Original ==
    LET s == Search
    IN  (s.reached /\ s.best <= CallThreshold /\ "unknown" \notin s.labels) =>
            /\ OneResult
            /\ ret.value[1].matched
            /\ ret.value[1].label \in s.labels
            /\ ret.value[1].distance = s.best
            /\ ret.value[1].similarity = ONE - s.best
            /\ ret.value[1].participant = participantData(ret.value[1].label)

MatchedExactly ==
    /\ OneResult
    /\ ret.value[1].matched
    /\ ret.value[1].distance = 0
    /\ ret.value[1].similarity = ONE

(* C6 as stated, on the stores that do not make the call throw: a store     *)
(* with a vector equal to the query gives Matched, distance 0, similarity 1 *)
C6_Original ==
    LET s == Search
    IN  (s.exact /\ ~s.throws) => MatchedExactly

(* C6, amended: given a store with a reference vector equal to the query    *)
(* and a positive threshold, the call throws when a store entry is          *)
(* malformed, null or of another length; otherwise, when no entry at        *)
(* distance 0 is labelled "unknown", it returns Matched with distance 0 and *)
(* similarity 1, labelled by an entry equal to the query.                   *)
C6_ExactMatch ==
    LET s == Search
    IN  (s.exact /\ CallThreshold > 0) =>
            IF s.throws THEN ret.outcome = "threw"
            ELSE ("unknown" \notin s.labels) =>
                     /\ MatchedExactly
                     /\ ret.value[1].label \in s.labels

(* The query's own vector stored under "alice", next to a farther entry.    *)
C6_Witness ==
    LET s == Search
    IN  /\ s.exact /\ s.reached
        /\ s.size = 2
        /\ s.far
        /\ MatchedExactly
        /\ ret.value[1].label = "alice"

(* C7: with best distance d > t the result is one NotMatched result with    *)
(* the insufficient-confidence reason (not the "unknown" reason) and the    *)
(* numeric d; no Matched result has a distance above the threshold.         *)
C7_AboveThresholdNotMatched ==
    LET s == Search
    IN  /\ REASON_LOW_CONFIDENCE # REASON_UNKNOWN
        /\ (s.reached /\ s.best > CallThreshold) =>
              /\ OneResult
              /\ ret.value[1].matched = FALSE
              /\ ret.value[1].reason = REASON_LOW_CONFIDENCE
              /\ ret.value[1].distance = s.best
        /\ (MatchCall /\ ret.outcome = "returned") =>
              \A i \in 1..Len(ret.value) :
                  ret.value[i].matched => ret.value[i].distance <= CallThreshold

(* Best distance 0.5 against threshold 0.3.                                 *)
C7_Witness ==
    LET s == Search
    IN  /\ s.reached
        /\ CallThreshold = 6
        /\ s.best = 10
        /\ OneResult
        /\ ret.value[1].reason = REASON_LOW_CONFIDENCE
        /\ ret.value[1].distance = 10

(* C8: when the nearest store entry is labelled "unknown" the result is     *)
(* NotMatched, even below the threshold; no Matched result has the label    *)
(* "unknown".                                                               *)
C8_UnknownNeverMatched ==
    LET s == Search
    IN  /\ (s.reached /\ s.labels = {"unknown"}) =>
              /\ OneResult
              /\ ret.value[1].matched = FALSE
        /\ (MatchCall /\ ret.outcome = "returned") =>
              \A i \in 1..Len(ret.value) :
                  ret.value[i].matched => ret.value[i].label # "unknown"

(* An "unknown" entry equal to the query, under threshold 0.6.              *)
C8_Witness ==
    LET s == Search
    IN  /\ s.reached
        /\ s.labels = {"unknown"}
        /\ s.best = 0
        /\ CallThreshold = 12
        /\ OneResult
        /\ ret.value[1].matched = FALSE
        /\ ret.value[1].reason = REASON_UNKNOWN

WithoutMalformed(store) == SelectSeq(store, LAMBDA e : ~IsMalformed(e))

(* C9 as stated: a store with malformed entries gives, without throwing,    *)
(* the result of the same store with those entries removed.                 *)
C9_Original ==
    (MatchCall /\ CallQuery.def /\ \E i \in 1..Len(call.store) : IsMalformed(call.store[i])) =>
        /\ ret.outcome = "returned"
        /\ ret = IF call.op = "findMatches"
                 THEN findMatches(call.img, WithoutMalformed(call.store), call.threshold)
                 ELSE findMatchesByDescriptor(call.query, WithoutMalformed(call.store),
                                              call.threshold)

(* C10 as stated: with the threshold omitted, every path decides with 0.5.  *)
C10_Original ==
    /\ (MatchCall /\ ~call.threshold.def) =>
          ret = IF call.op = "findMatches"
                THEN findMatches(call.img, call.store, Some(10))
                ELSE findMatchesByDescriptor(call.query, call.store, Some(10))
    /\ (call.op = "POST /api/recognize" /\ ret.outcome # "none") =>
          ret = findMatches(call.req.image.v, parseDescriptors(call.req.descriptors.v),
                            Some(10))
    /\ (call.op = "POST /api/recognize-descriptor" /\ ret.outcome # "none"
            /\ ~call.req.threshold.def) =>
          ret = findMatchesByDescriptor(parseQuery(call.req.descriptor),
                    parseDescriptors(call.req.descriptors.v), Some(10))

----------------------------------------------------------------------------
(* The ranked variant, as documented for POST /api/recognize-descriptor     *)
(* (README.md lines 139-179), against findMatchesByDescriptor.              *)

RECURSIVE Dot(_, _)
Dot(a, b) ==
    IF a = <<>> THEN 0 ELSE Head(a) * Head(b) + Dot(Tail(a), Tail(b))

(* dot(a, b) / (|a| |b|) in twentieths, 0 when either norm is 0.            *)
cosineSimilarity(a, b) ==
    IF Dot(a, a) = 0 \/ Dot(b, b) = 0 THEN 0
    ELSE (ONE * Dot(a, b)) \div Sqrt(Dot(a, a) * Dot(b, b))

RECURSIVE RankedFrom(_, _)
(* The indices of Q by descending sim, equal sims in index order.           *)
RankedFrom(Q, sim) ==
    IF Q = {} THEN <<>>
    ELSE LET i == CHOOSE k \in Q :
                      \A j \in Q : sim[k] > sim[j] \/ (sim[k] = sim[j] /\ k <= j)
         IN  <<i>> \o RankedFrom(Q \ {i}, sim)

(* What the ranked variant returns for a store whose entries all carry a    *)
(* vector: index (from 0), similarity and distance of the entries with      *)
(* similarity >= threshold, ranked.                                         *)
Ranked(q, store, threshold) ==
    LET vec == [i \in 1..Len(store) |-> normalizeEntry(store[i]).descriptor]
        sim == [i \in 1..Len(store) |-> cosineSimilarity(q, vec[i])]
        order == RankedFrom({i \in 1..Len(store) : sim[i] >= threshold}, sim)
    IN  [k \in 1..Len(order) |->
            [index |-> order[k] - 1, similarity |-> sim[order[k]],
             distance |-> euclideanDistance(q, vec[order[k]])]]

(* C11 as stated: findMatchesByDescriptor returns exactly the store entries *)
(* whose similarity to the query is >= threshold, by descending similarity  *)
(* with ties in store order, each with its index, similarity and distance,  *)
(* and the empty sequence when none qualifies.                              *)
C11_Original ==
    LET s == Search
    IN  (call.op = "findMatchesByDescriptor" /\ s.reached /\ call.threshold.def) =>
            LET ranked == Ranked(CallQuery.v, call.store, call.threshold.v)
            IN  /\ ret.outcome = "returned"
                /\ Len(ret.value) = Len(ranked)
                /\ \A k \in 1..Len(ranked) :
                       /\ {"index", "similarity", "distance"} \subseteq DOMAIN ret.value[k]
                       /\ ret.value[k].index = ranked[k].index
                       /\ ret.value[k].similarity = ranked[k].similarity
                       /\ ret.value[k].distance = ranked[k].distance

----------------------------------------------------------------------------
(* Ties at the minimum distance                                             *)

Tie ==
    LET s == Search
    IN  s.reached /\ s.first # s.last

(* C12 as stated: the label at the minimum distance is selected and, of     *)
(* several labels at that distance, the first in store order decides the    *)
(* reported label and between Matched and the "unknown" NotMatched.         *)
C12_Original ==
    LET s == Search
    IN  (s.reached /\ s.best <= CallThreshold) =>
            /\ OneResult
            /\ ret.value[1].matched => ret.value[1].label = s.first
            /\ s.first = "unknown" => ~ret.value[1].matched
            /\ (s.first # "unknown" /\ s.best < FACE_MATCHER_THRESHOLD) =>
                   ret.value[1].matched

(* C12, amended: the entry at the minimum distance is selected and, of      *)
(* several entries at that distance, the last in store order wins.  The     *)
(* result carries the minimum distance; it is Matched exactly when that     *)
(* distance is within the threshold and below the matcher's 0.6 and the     *)
(* last tied entry is not labelled "unknown", and then carries that         *)
(* entry's label.                                                           *)
C12_LastOfTiedWins ==
    LET s == Search
    IN  s.reached =>
            /\ OneResult
            /\ ret.value[1].distance = s.best
            /\ ret.value[1].matched <=>
                   /\ s.best <= CallThreshold
                   /\ s.best < FACE_MATCHER_THRESHOLD
                   /\ s.last # "unknown"
            /\ ret.value[1].matched => ret.value[1].label = s.last

(* Two entries equal to the query, "bob" before Ana's label: Ana matches.   *)
C12_Witness ==
    LET s == Search
    IN  /\ Tie
        /\ s.first = "bob"
        /\ s.last = LabelAna
        /\ s.best = 0
        /\ OneResult
        /\ ret.value[1].matched
        /\ ret.value[1].label = LabelAna

----------------------------------------------------------------------------
(* Model loading and the readiness gate, on the step-by-step start-up       *)

(* C13 as stated: whatever the interleaving of initialize() calls, the      *)
(* loading step is performed at most once, so no two calls are ever         *)
(* suspended in it together and none is once modelsLoaded holds.            *)
C13_Original ==
    /\ Cardinality(pending) <= 1
    /\ modelsLoaded => pending = {}

HandlerCall ==
    call.op \in {"POST /api/validate", "POST /api/recognize",
                 "POST /api/recognize-descriptor"}

(* What holds in every state: modelsReady follows a successful load, the    *)
(* server listens only when ready, a request is handled only by a listening *)
(* server, its handler calls the service only when ready and answers 503    *)
(* otherwise, and a failed start-up has neither readiness nor a request.    *)
GateInvariant ==
    /\ modelsReady => modelsLoaded
    /\ srv \in {"ready", "listening"} <=> modelsReady
    /\ HandlerCall =>
          /\ srv = "listening"
          /\ ret.outcome # "none" => modelsReady
          /\ ~modelsReady => resp.status = 503
    /\ srv \in {"failed", "exited"} => ~modelsReady /\ ~HandlerCall

(* What holds of every step: modelsReady never falls, listening begins      *)
(* from the ready server only, and a failed start-up only exits.            *)
GateStep ==
    /\ modelsReady => modelsReady'
    /\ (srv # "listening" /\ srv' = "listening") => srv = "ready" /\ modelsReady
    /\ srv = "failed" => srv' \in {"failed", "exited"}
    /\ srv = "exited" => UNCHANGED vars

(* C14: no request handler calls validateAndExtractDescriptor, findMatches  *)
(* or findMatchesByDescriptor while modelsReady is false (it answers 503);  *)
(* modelsReady only changes from false to true, and only after initialize() *)
(* succeeded; the server listens only after that; a failed load ends the    *)
(* process without a request ever being accepted.                           *)
C14_ReadinessGate == []GateInvariant /\ [][GateStep]_vars

(* A request served by the listening server with a call of the matcher.     *)
C14_Witness ==
    /\ srv = "listening"
    /\ modelsReady
    /\ call.op = "POST /api/recognize-descriptor"
    /\ ret.outcome = "returned"
    /\ resp.status = 200

====
